---- MODULE Spec2Model ----
(***************************************************************************)
(* Model of the options-trading simulator: the per-day, per-minute event   *)
(* loop of Simulator.run_simulator (src/simulator.py) and the spread       *)
(* builders PutCreditSpread / CallCreditSpread (src/spread.py).            *)
(*                                                                         *)
(* Units.  Option quotes and spread prices are integers in hundredths      *)
(* (0.01); underlying prices are integers in hundredths; strikes, width    *)
(* and offset are whole index points; max_loss, max_profit, pnl and the    *)
(* commission are integers in hundredths of a dollar; take_profit_level is *)
(* in hundredths (50 = 0.5).  A time of day is a minute since midnight, a  *)
(* date-time is date * DayMinutes + minute, so that the order of the       *)
(* integers is the order of the 'YYYY-MM-DD HH:MM:SS' strings of the code. *)
(* Python's None is NoTime for times, NoPrice for prices and "None" for    *)
(* the outcome.  round() is modelled as round-half-to-even on the exact    *)
(* decimal value.                                                          *)
(***************************************************************************)
EXTENDS Integers, Sequences, FiniteSets, TLC

\* ------------------------------------------------------------------------
\* Program constants
\* ------------------------------------------------------------------------
DayMinutes == 1440
TradingStart == 930
TradingEnd == 1320
ValidationTime == 1310
Slippage == 5
Commission == 150
StrikeStep == 5
NoTime == -1
NoPrice == 0

\* ------------------------------------------------------------------------
\* Bounds of the model
\* ------------------------------------------------------------------------
NumDays == 2
MaxRows == 3
MaxBuilds == 3

\* ------------------------------------------------------------------------
\* Arithmetic helpers
\* ------------------------------------------------------------------------

\* Python round(n / d) for an integer n and d > 0: nearest, ties to even.
RoundHalfEven(n, d) ==
    LET q == n \div d
        r == n % d
    IN  IF 2 * r < d THEN q
        ELSE IF 2 * r > d THEN q + 1
        ELSE IF q % 2 = 0 THEN q ELSE q + 1

\* round(price * level, 1) with price and level in hundredths, in hundredths.
RoundTenth(price, level) == 10 * RoundHalfEven(price * level, 1000)

\* ------------------------------------------------------------------------
\* PutCreditSpread / CallCreditSpread helpers
\* ------------------------------------------------------------------------
PutSpreadStrikes(spx_price, offset, width) ==
    LET sell_leg == RoundHalfEven(spx_price, 100 * StrikeStep) * StrikeStep + offset
    IN  <<sell_leg, sell_leg - width>>

\* variant: the offset is added to the base strike as for a put spread
CallSpreadStrikesAdding(spx_price, offset, width) ==
    LET sell_leg == RoundHalfEven(spx_price, 100 * StrikeStep) * StrikeStep + offset
    IN  <<sell_leg, sell_leg + width>>

CallSpreadStrikes(spx_price, offset, width) ==
    LET sell_leg == RoundHalfEven(spx_price, 100 * StrikeStep) * StrikeStep - offset
    IN  <<sell_leg, sell_leg + width>>

Max0(x) == IF x < 0 THEN 0 ELSE x

RoundedPrice(buy_ask, buy_bid, sell_ask, sell_bid) ==
    5 * RoundHalfEven((Max0(buy_ask) - Max0(sell_ask)) + (Max0(buy_bid) - Max0(sell_bid)), 10)
      + Slippage

PutCalcRoundedPrice(q, width) ==
    IF q.buy_ask = 0 /\ q.buy_bid = 0 THEN -(100 * width)
    ELSE IF q.sell_ask = 0 /\ q.sell_bid = 0 THEN -(100 * width)
    ELSE RoundedPrice(q.buy_ask, q.buy_bid, q.sell_ask, q.sell_bid)

\* variant: the call builder prices an unquoted minute like any other
CallCalcRoundedPriceNoSentinel(q, width) ==
    RoundedPrice(q.buy_ask, q.buy_bid, q.sell_ask, q.sell_bid)

CallCalcRoundedPrice(q, width) ==
    IF q.buy_ask = 0 /\ q.buy_bid = 0 /\ q.sell_ask = 0 /\ q.sell_bid = 0
    THEN -(100 * width)
    ELSE RoundedPrice(q.buy_ask, q.buy_bid, q.sell_ask, q.sell_bid)

CalcRoundedPrice(spread_type, q, width) ==
    IF spread_type = "put_spread" THEN PutCalcRoundedPrice(q, width)
    ELSE CallCalcRoundedPrice(q, width)

\* variant: the call builder takes the strike difference as the put builder does
CalculateMaxLossSameSide(spread_type, entry_price, sell_strike, buy_strike) ==
    -(((sell_strike - buy_strike) * 100 + entry_price) * 100)

\* -round(((sell - buy) + entry_price) * 100, 2) for puts, (buy - sell) for calls
CalculateMaxLoss(spread_type, entry_price, sell_strike, buy_strike) ==
    IF spread_type = "put_spread"
    THEN -(((sell_strike - buy_strike) * 100 + entry_price) * 100)
    ELSE -(((buy_strike - sell_strike) * 100 + entry_price) * 100)

CalculateMaxProfit(entry_price) == -(entry_price * 100)

\* break-even level in hundredths of an index point
CalculateBreakEvenPoints(spread_type, entry_price, sell_strike) ==
    IF spread_type = "put_spread" THEN sell_strike * 100 + entry_price
    ELSE sell_strike * 100 - entry_price

HitBreakEvenLevel(spread_type, spx_price, break_even_level) ==
    IF spread_type = "put_spread" THEN spx_price < break_even_level
    ELSE spx_price > break_even_level

HitTakeProfitLevel(spread_price, entry_price, take_profit_level) ==
    spread_price > RoundTenth(entry_price, take_profit_level)

\* ------------------------------------------------------------------------
\* get_spread_data: the joined quote series `rows` is what the inner join of
\* the two legs' query_option_chain results holds (ordered by time, every
\* time >= the entry minute); each row is [time, q, spx_price].
\* ------------------------------------------------------------------------
DateOf(dt) == dt \div DayMinutes
MinuteOf(dt) == dt % DayMinutes
DateTime(date, minute) == date * DayMinutes + minute

\* the indexes of the rows that satisfy the flag, in the order of the series
RECURSIVE FlaggedIndexes(_)
FlaggedIndexes(flags) ==
    IF flags = <<>> THEN <<>>
    ELSE LET n == Len(flags)
             init == FlaggedIndexes(SubSeq(flags, 1, n - 1))
         IN  IF flags[n] THEN Append(init, n) ELSE init

\* variant: the last index of the series whose row satisfies the flag
LastIndex(flags) ==
    IF \E i \in 1..Len(flags) : flags[i]
    THEN CHOOSE i \in 1..Len(flags) : flags[i] /\ \A j \in (i + 1)..Len(flags) : ~flags[j]
    ELSE 0

\* first index of the series whose row satisfies the flag, 0 when none does
FirstIndex(flags) ==
    IF \E i \in 1..Len(flags) : flags[i]
    THEN CHOOSE i \in 1..Len(flags) : flags[i] /\ \A j \in 1..(i - 1) : ~flags[j]
    ELSE 0

\* row(0) of filter(time == t): the first row carrying that time
RowAtTime(rows, t) == CHOOSE i \in 1..Len(rows) : rows[i].time = t /\ \A j \in 1..(i - 1) : rows[j].time # t

\* variant: under bep a break-even minute without a take-profit minute is
\* not taken as the exit
ResolveExitIgnoringBreakEven(stop_loss_type, break_even_time, tp_time, last_time) ==
    IF stop_loss_type = "bep" THEN
        IF break_even_time # NoTime /\ tp_time # NoTime THEN
            IF break_even_time < tp_time
            THEN [exit_time |-> break_even_time, outcome |-> "stop_loss"]
            ELSE [exit_time |-> tp_time, outcome |-> "None"]
        ELSE IF tp_time # NoTime
            THEN [exit_time |-> tp_time, outcome |-> "take_profit"]
        ELSE [exit_time |-> last_time, outcome |-> "expire"]
    ELSE IF stop_loss_type = "expire" THEN
        IF tp_time # NoTime
        THEN [exit_time |-> tp_time, outcome |-> "take_profit"]
        ELSE [exit_time |-> last_time, outcome |-> "expire"]
    ELSE [exit_time |-> tp_time, outcome |-> "None"]

\* variant: the expire policy exits at a break-even minute that comes before
\* the take-profit minute
ResolveExitStoppingExpire(stop_loss_type, break_even_time, tp_time, last_time) ==
    IF stop_loss_type = "bep" THEN
        IF break_even_time # NoTime /\ tp_time # NoTime THEN
            IF break_even_time < tp_time
            THEN [exit_time |-> break_even_time, outcome |-> "stop_loss"]
            ELSE [exit_time |-> tp_time, outcome |-> "None"]
        ELSE IF break_even_time # NoTime /\ tp_time = NoTime
            THEN [exit_time |-> break_even_time, outcome |-> "stop_loss"]
        ELSE IF break_even_time = NoTime /\ tp_time # NoTime
            THEN [exit_time |-> tp_time, outcome |-> "take_profit"]
        ELSE [exit_time |-> last_time, outcome |-> "expire"]
    ELSE IF stop_loss_type = "expire" THEN
        IF break_even_time # NoTime /\ tp_time # NoTime /\ break_even_time < tp_time
        THEN [exit_time |-> break_even_time, outcome |-> "take_profit"]
        ELSE IF tp_time # NoTime
        THEN [exit_time |-> tp_time, outcome |-> "take_profit"]
        ELSE [exit_time |-> last_time, outcome |-> "expire"]
    ELSE [exit_time |-> tp_time, outcome |-> "None"]

\* the branch on stop_loss_type: [exit_time, outcome] from the first
\* break-even time, the first take-profit time and the last quoted time
ResolveExit(stop_loss_type, break_even_time, tp_time, last_time) ==
    IF stop_loss_type = "bep" THEN
        IF break_even_time # NoTime /\ tp_time # NoTime THEN
            IF break_even_time < tp_time
            THEN [exit_time |-> break_even_time, outcome |-> "stop_loss"]
            ELSE [exit_time |-> tp_time, outcome |-> "None"]
        ELSE IF break_even_time # NoTime /\ tp_time = NoTime
            THEN [exit_time |-> break_even_time, outcome |-> "stop_loss"]
        ELSE IF break_even_time = NoTime /\ tp_time # NoTime
            THEN [exit_time |-> tp_time, outcome |-> "take_profit"]
        ELSE [exit_time |-> last_time, outcome |-> "expire"]
    ELSE IF stop_loss_type = "expire" THEN
        IF tp_time # NoTime
        THEN [exit_time |-> tp_time, outcome |-> "take_profit"]
        ELSE [exit_time |-> last_time, outcome |-> "expire"]
    ELSE [exit_time |-> tp_time, outcome |-> "None"]

\* variant: quotes that stop at 21:50 are settled on the end-of-day price too
SessionOverrideThrough2150(spread_type, resolved, exit_price, last_time, eod_spx_price, sell_strike, width, entry_price, take_profit_level) ==
    LET r == [exit_time |-> resolved.exit_time, outcome |-> resolved.outcome,
              exit_price |-> exit_price]
        eod_favourable == IF spread_type = "put_spread"
                        THEN eod_spx_price > sell_strike * 100
                        ELSE eod_spx_price < sell_strike * 100
    IN  IF last_time <= ValidationTime THEN
            IF eod_favourable
            THEN [exit_time |-> last_time, outcome |-> "take_profit",
                  exit_price |-> RoundTenth(entry_price, take_profit_level)]
            ELSE [exit_time |-> TradingEnd, outcome |-> "expire",
                  exit_price |-> -(100 * width)]
        ELSE r

\* variant: a call spread is settled with the put spread's comparison
SessionOverrideSameSide(spread_type, resolved, exit_price, last_time, eod_spx_price, sell_strike, width, entry_price, take_profit_level) ==
    LET r == [exit_time |-> resolved.exit_time, outcome |-> resolved.outcome,
              exit_price |-> exit_price]
    IN  IF last_time < ValidationTime THEN
            IF eod_spx_price > sell_strike * 100
            THEN [exit_time |-> last_time, outcome |-> "take_profit",
                  exit_price |-> RoundTenth(entry_price, take_profit_level)]
            ELSE [exit_time |-> TradingEnd, outcome |-> "expire",
                  exit_price |-> -(100 * width)]
        ELSE r

\* the validation_time branch: quotes that stop before 21:50 are settled on
\* the end-of-day price
SessionOverride(spread_type, resolved, exit_price, last_time, eod_spx_price, sell_strike, width, entry_price, take_profit_level) ==
    LET r == [exit_time |-> resolved.exit_time, outcome |-> resolved.outcome,
              exit_price |-> exit_price]
        eod_favourable == IF spread_type = "put_spread"
                        THEN eod_spx_price > sell_strike * 100
                        ELSE eod_spx_price < sell_strike * 100
    IN  IF last_time < ValidationTime THEN
            IF eod_favourable
            THEN [exit_time |-> last_time, outcome |-> "take_profit",
                  exit_price |-> RoundTenth(entry_price, take_profit_level)]
            ELSE [exit_time |-> TradingEnd, outcome |-> "expire",
                  exit_price |-> -(100 * width)]
        ELSE r

\* variant: only the upper clamp
ClampPnlUpperOnly(entry_price, exit_price, max_loss, max_profit) ==
    LET pnl0 == -((entry_price - exit_price) * 100 + Commission)
    IN  IF pnl0 > max_profit THEN max_profit - Commission ELSE pnl0

\* variant: only the lower clamp
ClampPnlLowerOnly(entry_price, exit_price, max_loss, max_profit) ==
    LET pnl0 == -((entry_price - exit_price) * 100 + Commission)
    IN  IF pnl0 < max_loss THEN max_loss - Commission ELSE pnl0

\* pnl = -round((entry - exit) * 100 + commission, 2), then the two clamps
ClampPnl(entry_price, exit_price, max_loss, max_profit) ==
    LET pnl0 == -((entry_price - exit_price) * 100 + Commission)
        pnl1 == IF pnl0 < max_loss THEN max_loss - Commission ELSE pnl0
    IN  IF pnl1 > max_profit THEN max_profit - Commission ELSE pnl1

NullTrade ==
    [spread_type |-> "None", width |-> 0, offset |-> 0, stop_loss_type |-> "None",
     take_profit_level |-> 0, strikes |-> <<0, 0>>, max_loss |-> 0, max_profit |-> 0,
     entry_time |-> NoTime, entry_price |-> 0, exit_time |-> NoTime, exit_price |-> 0,
     pnl |-> 0, outcome |-> "None", current_status |-> "None",
     break_even_level |-> 0, break_even_time |-> NoTime,
     tp_time |-> NoTime, last_time |-> NoTime, eod_spx_price |-> NoPrice,
     break_even_times |-> <<>>,
     hedge_of |-> 0, opened_at |-> NoTime, opened_by |-> 0,
     closed_at |-> NoTime, closed_by |-> 0]

\* the except branch of get_spread_data: whatever was raised is printed and
\* an empty frame is returned
ExceptResultReturningNone == [kind |-> "none", trade |-> NullTrade, spread_price |-> <<>>]
ExceptResult == [kind |-> "empty", trade |-> NullTrade, spread_price |-> <<>>]

\* Result kinds: "trade" (a one-row frame), "empty" (the except branch: an
\* empty frame), "none" (the `return None` of an entry price below -width).
\* spread_price is the spread_price column of the joined frame the result was
\* computed from, one price per joined minute.
\* tp_time, last_time, eod_spx_price and hedge_of are history fields: the
\* first take-profit time, the last quoted time, the end-of-day price the
\* builder was given, and (set by the simulator) the ledger position of the
\* primary trade a hedge was built for.  opened_at, opened_by, closed_at and
\* closed_by are history fields set by the simulator too: the loop minute
\* and the position of the strategy in whose iteration the trade was
\* concatenated to the ledger, and those in whose iteration the close mask
\* selected it.
GetSpreadData(spread_type, spx_price, eod_spx_price, current_time, sd, forced, rows) ==
    LET width == sd.width
        strikes == IF forced = <<>>
                   THEN IF spread_type = "put_spread"
                        THEN PutSpreadStrikes(spx_price, sd.offset, width)
                        ELSE CallSpreadStrikes(spx_price, sd.offset, width)
                   ELSE forced
    IN  IF rows = <<>> THEN ExceptResult
        ELSE
        LET price == [i \in 1..Len(rows) |-> CalcRoundedPrice(spread_type, rows[i].q, width)]
            entry_price == price[1]
            max_loss == CalculateMaxLoss(spread_type, entry_price, strikes[1], strikes[2])
            max_profit == CalculateMaxProfit(entry_price)
            break_even_level == CalculateBreakEvenPoints(spread_type, entry_price, strikes[1])
            be_i == FirstIndex([i \in 1..Len(rows) |->
                        HitBreakEvenLevel(spread_type, rows[i].spx_price, break_even_level)])
            tp_i == FirstIndex([i \in 1..Len(rows) |->
                        HitTakeProfitLevel(price[i], entry_price, sd.take_profit_level)])
            break_even_time == IF be_i = 0 THEN NoTime ELSE rows[be_i].time
            break_even_rows == FlaggedIndexes([i \in 1..Len(rows) |->
                        HitBreakEvenLevel(spread_type, rows[i].spx_price, break_even_level)])
            tp_time == IF tp_i = 0 THEN NoTime ELSE rows[tp_i].time
            last_time == rows[Len(rows)].time
            resolved == ResolveExit(sd.stop_loss_type, break_even_time, tp_time, last_time)
        IN  IF resolved.exit_time = NoTime THEN ExceptResult
            ELSE
            LET exit_price0 == price[RowAtTime(rows, resolved.exit_time)]
                final == SessionOverride(spread_type, resolved, exit_price0, last_time,
                                         eod_spx_price, strikes[1], width, entry_price,
                                         sd.take_profit_level)
                date == DateOf(current_time)
                pnl == ClampPnl(entry_price, final.exit_price, max_loss, max_profit)
            IN  IF entry_price < -(100 * width)
                THEN [kind |-> "none", trade |-> NullTrade, spread_price |-> price]
                ELSE [kind |-> "trade", spread_price |-> price,
                      trade |-> [spread_type |-> spread_type, width |-> width,
                                 offset |-> sd.offset,
                                 stop_loss_type |-> sd.stop_loss_type,
                                 take_profit_level |-> sd.take_profit_level,
                                 strikes |-> strikes, max_loss |-> max_loss,
                                 max_profit |-> max_profit, entry_time |-> current_time,
                                 entry_price |-> entry_price,
                                 exit_time |-> DateTime(date, final.exit_time),
                                 exit_price |-> final.exit_price, pnl |-> pnl,
                                 outcome |-> final.outcome, current_status |-> "active",
                                 break_even_level |-> break_even_level,
                                 break_even_time |-> IF break_even_time = NoTime THEN NoTime
                                                     ELSE DateTime(date, break_even_time),
                                 break_even_times |->
                                     [k \in 1..Len(break_even_rows) |->
                                         DateTime(date, rows[break_even_rows[k]].time)],
                                 tp_time |-> tp_time, last_time |-> last_time,
                                 eod_spx_price |-> eod_spx_price, hedge_of |-> 0,
                                 opened_at |-> NoTime, opened_by |-> 0,
                                 closed_at |-> NoTime, closed_by |-> 0]]

\* ------------------------------------------------------------------------
\* Inputs: strategy configurations, prices and quotes
\* ------------------------------------------------------------------------
SpreadTypes == {"call_spread", "put_spread"}
OtherSide(spread_type) == IF spread_type = "call_spread" THEN "put_spread" ELSE "call_spread"
Hedges == {"", "box", "time_box"}
StopLossTypes == {"bep", "expire"}
MaxActiveChoices == {1, 2}

\* the strategy parameter dictionaries of params['strategies']
StrategyConfigs ==
    [spread_type : SpreadTypes, start_time_window : {1318},
     end_time_window : {1320}, max_active_positions : MaxActiveChoices,
     width : {5}, offset : {0}, stop_loss_type : StopLossTypes,
     take_profit_level : {50}, hedge : Hedges]

\* one bep strategy, or a bep strategy followed by an expire strategy, each
\* of the two limited to one position: of the other spread type, or of the
\* same spread type and both without a hedge
StrategyPairs ==
    {<<a, b>> : a \in {c \in StrategyConfigs :
                          c.stop_loss_type = "bep" /\ c.max_active_positions = 1},
                b \in {c \in StrategyConfigs :
                          c.stop_loss_type = "expire" /\ c.max_active_positions = 1}}

StrategyLists ==
    {<<a>> : a \in {c \in StrategyConfigs : c.stop_loss_type = "bep"}}
      \cup {p \in StrategyPairs : p[1].spread_type # p[2].spread_type}
      \cup {p \in StrategyPairs : /\ p[1].spread_type = p[2].spread_type
                                  /\ p[1].hedge = "" /\ p[2].hedge = ""}

\* strategies_data: a dict keyed by spread_type, in insertion order; a later
\* configuration of the same spread_type replaces the earlier one in place
RECURSIVE StrategiesData(_)
StrategiesData(list) ==
    IF list = <<>> THEN <<>>
    ELSE LET front == StrategiesData(SubSeq(list, 1, Len(list) - 1))
             s == list[Len(list)]
         IN  IF \E i \in 1..Len(front) : front[i].spread_type = s.spread_type
             THEN [i \in 1..Len(front) |->
                      IF front[i].spread_type = s.spread_type THEN s ELSE front[i]]
             ELSE Append(front, s)

\* underlying prices of the price store (hundredths)
SpxLevels == {10010, 11420}
EodLevels == {9000, 10000, 12000}
SimEodLevels == {12000}
RowSpxLevels == {9000, 12000}

\* leg quotes of the option chain (hundredths): a credit of 1.00, no
\* liquidity on either leg, a nearly worthless spread, a short leg far
\* above the width, a long leg above the short leg, an unquoted long leg
Quote(sb, sa, bb, ba) == [sell_bid |-> sb, sell_ask |-> sa, buy_bid |-> bb, buy_ask |-> ba]
CreditQuote == Quote(200, 220, 100, 110)
ZeroQuote == Quote(0, 0, 0, 0)
CheapQuote == Quote(10, 20, 5, 5)
DeepQuote == Quote(2000, 2000, 100, 100)
DebitQuote == Quote(100, 100, 120, 120)
NoLongQuote == Quote(200, 220, 0, 0)
WorthlessQuote == Quote(0, 5, 0, 5)
NegativeQuote == Quote(-10, -10, -10, -10)
Quotes == {CreditQuote, ZeroQuote, CheapQuote, DeepQuote, DebitQuote, NoLongQuote,
           WorthlessQuote, NegativeQuote}
SimQuotes == {CreditQuote, DeepQuote}

\* minutes at which the option chain may hold a quote row.  The query has a
\* lower bound on time only; the stored quotes are taken to lie within the
\* session (none after 22:00), so every exit_time is at most 22:00 of the
\* trade's own date.
RowMinutes == {1307, 1308, 1309, 1310}
SimRowMinutes == {1318, 1320}

Rows == [time : RowMinutes, q : Quotes, spx_price : RowSpxLevels]
SimRows == [time : SimRowMinutes, q : SimQuotes, spx_price : RowSpxLevels]

\* joined series of n rows a query from minute `from` can return: ordered
\* by time, no time before `from`
RECURSIVE SeriesOfLen(_, _)
SeriesOfLen(from, n) ==
    IF n = 0 THEN {<<>>}
    ELSE UNION {{<<r>> \o tail : tail \in SeriesOfLen(r.time + 1, n - 1)} :
                   r \in {x \in Rows : x.time >= from}}

\* variant: the query returns the rows of the whole date
SeriesOfWholeDate(from) == UNION {SeriesOfLen(0, n) : n \in 0..MaxRows}

SeriesFrom(from) == UNION {SeriesOfLen(from, n) : n \in 0..MaxRows}

\* the series the simulator specification draws from: no common timestamp,
\* or one joined row
SimSeriesFrom(from) == {<<>>} \cup {<<r>> : r \in {x \in SimRows : x.time >= from}}

\* inputs of one get_spread_data call of the builder specification; a
\* forced pair of strikes is the reversed pair of the opposite spread
BuildEntryMinute == 1308
BuildParams ==
    [width : {5}, offset : {0}, stop_loss_type : StopLossTypes, take_profit_level : {50}]

BaseInputs ==
    [spread_type : SpreadTypes, spx_price : {10010}, eod_spx_price : EodLevels,
     current_time : {DateTime(1, BuildEntryMinute)}, sd : BuildParams,
     forced : BOOLEAN, rows : SeriesFrom(BuildEntryMinute)]

\* calls that vary the strike parameters over one credit row: prices off the
\* strike grid, two of them halfway between two multiples of 5
StrikeSpxLevels == {591454, 10250, 10750}
StrikeParams ==
    [width : {5, 10}, offset : {-5, 0, 5}, stop_loss_type : {"expire"},
     take_profit_level : {50}]
StrikeInputs ==
    [spread_type : SpreadTypes, spx_price : StrikeSpxLevels, eod_spx_price : {12000},
     current_time : {DateTime(1, BuildEntryMinute)}, sd : StrikeParams,
     forced : BOOLEAN,
     rows : {x \in SeriesOfLen(BuildEntryMinute, 1) : x[1].q = CreditQuote}]

BuildInputs == BaseInputs \cup StrikeInputs

\* variant: the pair of the opposite spread is passed on as it is
ForcedStrikesSameOrder(spread_type, spx_price, sd) ==
    IF spread_type = "put_spread"
    THEN CallSpreadStrikes(spx_price, sd.offset, sd.width)
    ELSE PutSpreadStrikes(spx_price, sd.offset, sd.width)

ForcedStrikes(spread_type, spx_price, sd) ==
    LET other == IF spread_type = "put_spread"
                 THEN CallSpreadStrikes(spx_price, sd.offset, sd.width)
                 ELSE PutSpreadStrikes(spx_price, sd.offset, sd.width)
    IN  <<other[2], other[1]>>

\* ------------------------------------------------------------------------
\* Simulator state
\* ------------------------------------------------------------------------
VARIABLES
    strategies,          \* params['strategies']
    date,                \* index of the business date being processed
    current_time,        \* minute of the day being processed
    current_spx_price,   \* price at current_time, NoPrice when missing
    eod_spx_price,       \* last price of the date, NoPrice when missing
    si,                  \* position in strategies_data.items()
    pc,                  \* "open", "hedge", "close", "tick", "done", "aborted"
    trades,              \* self.trades, the ledger
    used_call_strikes,
    used_put_strikes,
    hedge_args,          \* entry_time and strikes of the hedge to build, or NoHedge
    builds,              \* get_spread_data calls answered from the quote store so far
    last_build,          \* history: outcome of the latest get_spread_data call
    b_in,                \* builder specification: the inputs of the call
    b_out                \* builder specification: what the call returned

vars == <<strategies, date, current_time, current_spx_price, eod_spx_price, si, pc,
          trades, used_call_strikes, used_put_strikes, hedge_args, builds, last_build,
          b_in, b_out>>

strategies_data == StrategiesData(strategies)

NoInput == [spread_type |-> "None"]
NoResult == [kind |-> "no_call", trade |-> NullTrade, spread_price |-> <<>>]
NoHedge == [entry_time |-> NoTime, strikes |-> <<0, 0>>, primary |-> 0]
NoBuild ==
    [kind |-> "no_call", hedge |-> FALSE, in_use |-> FALSE, active |-> 0, limit |-> 0,
     trade |-> NullTrade, primary |-> NullTrade, raised |-> FALSE]

Now == DateTime(date, current_time)

\* height of trades.filter(spread_type == name & current_status == 'active')
ActiveCount(book, name) ==
    Cardinality({i \in 1..Len(book) :
                    book[i].spread_type = name /\ book[i].current_status = "active"})

UsedStrikes(spread_type) ==
    IF spread_type = "call_spread" THEN used_call_strikes ELSE used_put_strikes

\* variant: only the short strike is looked up
StrikesInUseShortLeg(strikes, used) == strikes[1] \in used

StrikesInUse(strikes, used) == strikes[1] \in used \/ strikes[2] \in used

\* max_active_positions of the strategy configured for a spread type, 0 when
\* the run has none
LimitOf(spread_type) ==
    IF \E i \in 1..Len(strategies_data) : strategies_data[i].spread_type = spread_type
    THEN (CHOOSE s \in {strategies_data[i] : i \in 1..Len(strategies_data)} :
              s.spread_type = spread_type).max_active_positions
    ELSE 0

\* entries.filter(date_time == current_time_str) can be non-empty: the
\* candidates come from time(date_time) BETWEEN 'HH:MM' AND 'HH:MM'
InWindow(sd, minute) ==
    sd.start_time_window <= minute /\ minute < sd.end_time_window

\* the price store holds rows only for minutes inside an entry window, up
\* to the last minute for which the quote store can answer a query
PricedMinute(minute) ==
    /\ builds < MaxBuilds
    /\ \E i \in 1..Len(strategies_data) : InWindow(strategies_data[i], minute)

Init ==
    /\ strategies \in StrategyLists
    /\ date = 1
    /\ current_time = TradingStart
    /\ eod_spx_price \in SimEodLevels
    /\ current_spx_price = NoPrice
    /\ si = 1
    /\ pc = "open"
    /\ trades = <<>>
    /\ used_call_strikes = {}
    /\ used_put_strikes = {}
    /\ hedge_args = NoHedge
    /\ builds = 0
    /\ last_build = NoBuild
    /\ b_in = NoInput
    /\ b_out = NoResult

\* variant: a box hedge without a break-even time is entered with the primary
HedgeEntryTimeAlways(sd, t) ==
    IF sd.hedge = "box"
    THEN IF t.break_even_time # NoTime THEN t.break_even_time ELSE t.entry_time
    ELSE IF sd.hedge = "time_box"
         THEN IF t.exit_time < DateTime(date, sd.end_time_window) THEN NoTime
              ELSE DateTime(date, sd.end_time_window)
    ELSE NoTime

\* entry_time of the hedge of a committed-or-not primary trade
HedgeEntryTime(sd, t) ==
    IF sd.hedge = "box" /\ t.break_even_time # NoTime THEN t.break_even_time
    ELSE IF sd.hedge = "time_box"
         THEN IF t.exit_time < DateTime(date, sd.end_time_window) THEN NoTime
              ELSE DateTime(date, sd.end_time_window)
    ELSE NoTime

\* columns of the ledger frame self.trades and of the one-row frame a
\* builder returns
TradesColumns ==
    {"spread_type", "width", "offset", "stop_loss_type", "take_profit_level", "strikes",
     "max_loss", "max_profit", "entry_time", "entry_price", "exit_time", "exit_price",
     "pnl", "outcome", "current_status", "break_even_level", "break_even_time"}
HistoryFields ==
    {"tp_time", "last_time", "eod_spx_price", "hedge_of", "opened_at", "opened_by",
     "closed_at", "closed_by"}
Columns(t) == (DOMAIN t) \ HistoryFields

\* pl.concat([self.trades, new]) of two frames whose columns differ: the
\* vertical concat raises a ShapeError, which nothing catches, after the
\* strikes were added to the reservation set.  A polars build that accepts
\* the wider frame appends the record (Commit); the model keeps both.
ConcatRaises(t) ==
    /\ ~StrikesInUse(t.strikes, UsedStrikes(t.spread_type))
    /\ Columns(t) # TradesColumns
    /\ trades' = trades
    /\ IF t.spread_type = "call_spread"
       THEN /\ used_call_strikes' = used_call_strikes \cup {t.strikes[1], t.strikes[2]}
            /\ UNCHANGED used_put_strikes
       ELSE /\ used_put_strikes' = used_put_strikes \cup {t.strikes[1], t.strikes[2]}
            /\ UNCHANGED used_call_strikes
    /\ pc' = "aborted"

\* the strikes check and the commit of a built trade: reserves both strikes
\* and appends, or leaves everything as it is
Commit(t) ==
    IF StrikesInUse(t.strikes, UsedStrikes(t.spread_type))
    THEN UNCHANGED <<trades, used_call_strikes, used_put_strikes>>
    ELSE /\ trades' = Append(trades, [t EXCEPT !.opened_at = Now, !.opened_by = si])
         /\ IF t.spread_type = "call_spread"
            THEN /\ used_call_strikes' = used_call_strikes \cup {t.strikes[1], t.strikes[2]}
                 /\ UNCHANGED used_put_strikes
            ELSE /\ used_put_strikes' = used_put_strikes \cup {t.strikes[1], t.strikes[2]}
                 /\ UNCHANGED used_call_strikes

\* history of a get_spread_data call: what it returned and, for a built
\* trade, whether a strike was reserved and how many trades of its spread
\* type were active when the strikes check ran; limit is the maximum of the
\* strategy configured for that spread type, or of the strategy `sd` whose
\* parameters built the trade when the run configures none; trade is the
\* built record and primary, for a hedge, the record of the trade it hedges;
\* raised tells that the call ended in its except branch (no joined minute)
BuildRecord(r, t, is_hedge, sd) ==
    [kind |-> r.kind, hedge |-> is_hedge,
     in_use |-> r.kind = "trade" /\ StrikesInUse(t.strikes, UsedStrikes(t.spread_type)),
     active |-> IF r.kind = "trade" THEN ActiveCount(trades, t.spread_type) ELSE 0,
     limit |-> IF r.kind # "trade" THEN 0
               ELSE IF LimitOf(t.spread_type) # 0 THEN LimitOf(t.spread_type)
               ELSE sd.max_active_positions,
     trade |-> IF r.kind = "trade" THEN t ELSE NullTrade,
     primary |-> IF is_hedge THEN last_build.trade ELSE NullTrade,
     raised |-> r.spread_price = <<>>]

\* variant: the day's latest price alone admits the open-check
PriceKnownEodOnly == eod_spx_price # NoPrice

\* `if current_spx_price and eod_spx_price`
PriceKnown == current_spx_price # NoPrice /\ eod_spx_price # NoPrice

\* CHECK FOR NEW TRADES, up to the primary trade's commit
OpenCheck ==
    /\ pc = "open"
    /\ LET sd == strategies_data[si]
           name == sd.spread_type
       IN  IF /\ PriceKnown
              /\ ActiveCount(trades, name) < sd.max_active_positions
              /\ InWindow(sd, current_time) /\ builds < MaxBuilds
              /\ name \in SpreadTypes
           THEN \/ /\ pc' = "close"
                   /\ UNCHANGED <<trades, used_call_strikes, used_put_strikes,
                                  hedge_args, builds, last_build>>
                \/ \E rows \in SimSeriesFrom(current_time) :
                     LET r == GetSpreadData(name, current_spx_price, eod_spx_price, Now,
                                            sd, <<>>, rows)
                         t == r.trade
                         entry_time == HedgeEntryTime(sd, t)
                     IN  /\ builds' = builds + 1
                         /\ last_build' = BuildRecord(r, t, FALSE, sd)
                         /\ IF r.kind = "none"
                            THEN /\ pc' = "aborted"
                                 /\ UNCHANGED <<trades, used_call_strikes,
                                                used_put_strikes, hedge_args>>
                            ELSE IF r.kind = "empty"
                            THEN /\ pc' = "close"
                                 /\ UNCHANGED <<trades, used_call_strikes,
                                                used_put_strikes, hedge_args>>
                            ELSE \/ /\ Commit(t)
                                    /\ IF entry_time # NoTime
                                       THEN /\ hedge_args' =
                                                 [entry_time |-> entry_time,
                                                  strikes |-> <<t.strikes[2], t.strikes[1]>>,
                                                  primary |-> IF StrikesInUse(t.strikes, UsedStrikes(name))
                                                              THEN 0 ELSE Len(trades) + 1]
                                            /\ pc' = "hedge"
                                       ELSE /\ hedge_args' = NoHedge
                                            /\ pc' = "close"
                                 \/ /\ ConcatRaises(t)
                                    /\ hedge_args' = NoHedge
           ELSE /\ pc' = "close"
                /\ UNCHANGED <<trades, used_call_strikes, used_put_strikes,
                               hedge_args, builds, last_build>>
    /\ UNCHANGED <<strategies, date, current_time, current_spx_price, eod_spx_price, si>>
    /\ UNCHANGED <<b_in, b_out>>

\* the quote store holds series for MaxBuilds queries; a later query finds
\* no common timestamp
HedgeSeries ==
    IF builds < MaxBuilds THEN SimSeriesFrom(MinuteOf(hedge_args.entry_time)) ELSE {<<>>}

\* the opposite-side spread of the hedge, built with the primary strategy's
\* parameters and the primary trade's strikes reversed
OpenHedge ==
    /\ pc = "hedge"
    /\ LET sd == strategies_data[si]
           name == OtherSide(sd.spread_type)
       IN  \E rows \in HedgeSeries :
             LET r == GetSpreadData(name, current_spx_price, eod_spx_price,
                                    hedge_args.entry_time, sd, hedge_args.strikes, rows)
                 t == [r.trade EXCEPT !.hedge_of = hedge_args.primary]
             IN  /\ last_build' = BuildRecord(r, t, TRUE, sd)
                 /\ IF r.kind = "none"
                    THEN /\ pc' = "aborted"
                         /\ UNCHANGED <<trades, used_call_strikes, used_put_strikes>>
                    ELSE IF r.kind = "empty"
                    THEN /\ pc' = "close"
                         /\ UNCHANGED <<trades, used_call_strikes, used_put_strikes>>
                    ELSE \/ /\ Commit(t)
                            /\ pc' = "close"
                         \/ ConcatRaises(t)
    /\ hedge_args' = NoHedge
    /\ builds' = IF builds < MaxBuilds THEN builds + 1 ELSE builds
    /\ UNCHANGED <<strategies, date, current_time, current_spx_price, eod_spx_price, si>>
    /\ UNCHANGED <<b_in, b_out>>

\* variant: a trade is due only after its exit minute
CloseMaskStrict(t) == t.exit_time < Now /\ t.current_status = "active"

\* variant: a trade is due from two minutes before its exit minute
CloseMaskAhead(t) == t.exit_time <= Now + 2 /\ t.current_status = "active"

\* UPDATE ACTIVE TRADES STATUS
CloseMask(t) == t.exit_time <= Now /\ t.current_status = "active"

\* variant: only put strikes are released
ClosingPutsOnly(spread_type) ==
    IF spread_type # "put_spread" THEN {}
    ELSE UNION {{trades[i].strikes[1], trades[i].strikes[2]} :
                   i \in {j \in 1..Len(trades) :
                             CloseMask(trades[j]) /\ trades[j].spread_type = spread_type}}

Closing(spread_type) ==
    UNION {{trades[i].strikes[1], trades[i].strikes[2]} :
              i \in {j \in 1..Len(trades) :
                        CloseMask(trades[j]) /\ trades[j].spread_type = spread_type}}

\* variant: the rows outside the close mask are written as active
CloseCheckResetting ==
    /\ pc = "close"
    /\ used_put_strikes' = used_put_strikes \ Closing("put_spread")
    /\ used_call_strikes' = used_call_strikes \ Closing("call_spread")
    /\ trades' = [i \in 1..Len(trades) |->
                     IF CloseMask(trades[i])
                     THEN [trades[i] EXCEPT !.current_status = "close",
                                            !.closed_at = Now, !.closed_by = si]
                     ELSE [trades[i] EXCEPT !.current_status = "active"]]
    /\ IF si < Len(strategies_data)
       THEN si' = si + 1 /\ pc' = "open"
       ELSE si' = 1 /\ pc' = "tick"
    /\ last_build' = NoBuild
    /\ UNCHANGED <<strategies, date, current_time, current_spx_price, eod_spx_price,
                   hedge_args, builds>>
    /\ UNCHANGED <<b_in, b_out>>

\* variant: the closing rows are filtered out of the ledger
CloseCheckDropping ==
    /\ pc = "close"
    /\ used_put_strikes' = used_put_strikes \ Closing("put_spread")
    /\ used_call_strikes' = used_call_strikes \ Closing("call_spread")
    /\ trades' = SelectSeq(trades, LAMBDA t : ~CloseMask(t))
    /\ IF si < Len(strategies_data)
       THEN si' = si + 1 /\ pc' = "open"
       ELSE si' = 1 /\ pc' = "tick"
    /\ last_build' = NoBuild
    /\ UNCHANGED <<strategies, date, current_time, current_spx_price, eod_spx_price,
                   hedge_args, builds>>
    /\ UNCHANGED <<b_in, b_out>>

CloseCheck ==
    /\ pc = "close"
    /\ used_put_strikes' = used_put_strikes \ Closing("put_spread")
    /\ used_call_strikes' = used_call_strikes \ Closing("call_spread")
    /\ trades' = [i \in 1..Len(trades) |->
                     IF CloseMask(trades[i])
                     THEN [trades[i] EXCEPT !.current_status = "close",
                                            !.closed_at = Now, !.closed_by = si]
                     ELSE trades[i]]
    /\ IF si < Len(strategies_data)
       THEN si' = si + 1 /\ pc' = "open"
       ELSE si' = 1 /\ pc' = "tick"
    /\ last_build' = NoBuild
    /\ UNCHANGED <<strategies, date, current_time, current_spx_price, eod_spx_price,
                   hedge_args, builds>>
    /\ UNCHANGED <<b_in, b_out>>

\* A minute at which the loop body changes nothing: no price, so no
\* open-check, and no active trade is due, so the close mask selects no row
Uneventful(minute) ==
    /\ ~PricedMinute(minute)
    /\ \A i \in 1..Len(trades) :
          trades[i].current_status = "active" => trades[i].exit_time > DateTime(date, minute)

\* current_time += timedelta(minutes=1) and the price lookups of the minute
NextMinute ==
    /\ pc = "tick"
    /\ current_time < TradingEnd
    /\ ~Uneventful(current_time + 1)
    /\ current_time' = current_time + 1
    /\ IF PricedMinute(current_time + 1) /\ eod_spx_price # NoPrice
       THEN current_spx_price' \in SpxLevels \cup {NoPrice}
       ELSE current_spx_price' = NoPrice
    /\ pc' = "open"
    /\ UNCHANGED <<strategies, date, eod_spx_price, si, trades, used_call_strikes,
                   used_put_strikes, hedge_args, builds, last_build>>
    /\ UNCHANGED <<b_in, b_out>>

\* A maximal run of uneventful minutes, taken in one step: every iteration
\* of the run leaves the ledger and the reservation sets as they are.  The
\* first eventful minute after current_time is the next minute, the start
\* of an entry window or the exit minute of an active trade.
IdleMinutes ==
    /\ pc = "tick"
    /\ current_time < TradingEnd
    /\ Uneventful(current_time + 1)
    /\ LET first == {current_time + 1}
                        \cup {strategies_data[i].start_time_window : i \in 1..Len(strategies_data)}
                        \cup {MinuteOf(trades[i].exit_time) : i \in 1..Len(trades)}
           eventful == {m \in first : current_time < m /\ m <= TradingEnd /\ ~Uneventful(m)}
       IN  current_time' = IF eventful = {} THEN TradingEnd
                           ELSE (CHOOSE m \in eventful : \A k \in eventful : m <= k) - 1
    /\ current_spx_price' = NoPrice
    /\ pc' = "tick"
    /\ UNCHANGED <<strategies, date, eod_spx_price, si, trades, used_call_strikes,
                   used_put_strikes, hedge_args, builds, last_build>>
    /\ UNCHANGED <<b_in, b_out>>

\* variant: the sets of the new date are filled from the ledger's rows
NextDayReservingLedger ==
    /\ pc = "tick"
    /\ current_time = TradingEnd
    /\ date < NumDays
    /\ date' = date + 1
    /\ current_time' = TradingStart
    /\ used_call_strikes' = UNION {{trades[i].strikes[1], trades[i].strikes[2]} :
                                      i \in {j \in 1..Len(trades) :
                                                trades[j].spread_type = "call_spread"}}
    /\ used_put_strikes' = UNION {{trades[i].strikes[1], trades[i].strikes[2]} :
                                     i \in {j \in 1..Len(trades) :
                                               trades[j].spread_type = "put_spread"}}
    /\ eod_spx_price' \in SimEodLevels
    /\ current_spx_price' = NoPrice
    /\ pc' = "open"
    /\ UNCHANGED <<strategies, si, trades, hedge_args, builds, last_build>>
    /\ UNCHANGED <<b_in, b_out>>

\* the next business date: fresh reservation sets
NextDay ==
    /\ pc = "tick"
    /\ current_time = TradingEnd
    /\ date < NumDays
    /\ date' = date + 1
    /\ current_time' = TradingStart
    /\ used_call_strikes' = {}
    /\ used_put_strikes' = {}
    /\ eod_spx_price' \in SimEodLevels
    /\ current_spx_price' = NoPrice
    /\ pc' = "open"
    /\ UNCHANGED <<strategies, si, trades, hedge_args, builds, last_build>>
    /\ UNCHANGED <<b_in, b_out>>

Finish ==
    /\ pc = "tick"
    /\ current_time = TradingEnd
    /\ date = NumDays
    /\ pc' = "done"
    /\ UNCHANGED <<strategies, date, current_time, current_spx_price, eod_spx_price, si,
                   trades, used_call_strikes, used_put_strikes, hedge_args, builds,
                   last_build>>
    /\ UNCHANGED <<b_in, b_out>>

Next == OpenCheck \/ OpenHedge \/ CloseCheck \/ NextMinute \/ IdleMinutes \/ NextDay \/ Finish

Spec == Init /\ [][Next]_vars

\* ------------------------------------------------------------------------
\* Builder specification: one get_spread_data call on every input of
\* BuildInputs
\* ------------------------------------------------------------------------
InitBuild ==
    /\ strategies = <<>>
    /\ date = 1
    /\ current_time = TradingStart
    /\ eod_spx_price = NoPrice
    /\ current_spx_price = NoPrice
    /\ si = 1
    /\ pc = "input"
    /\ trades = <<>>
    /\ used_call_strikes = {}
    /\ used_put_strikes = {}
    /\ hedge_args = NoHedge
    /\ builds = 0
    /\ last_build = NoBuild
    /\ b_in \in BuildInputs
    /\ b_out = NoResult

Build ==
    /\ pc = "input"
    /\ b_out' = GetSpreadData(b_in.spread_type, b_in.spx_price, b_in.eod_spx_price,
                              b_in.current_time, b_in.sd,
                              IF b_in.forced
                              THEN ForcedStrikes(b_in.spread_type, b_in.spx_price, b_in.sd)
                              ELSE <<>>,
                              b_in.rows)
    /\ pc' = "built"
    /\ UNCHANGED <<strategies, date, current_time, current_spx_price, eod_spx_price, si,
                   trades, used_call_strikes, used_put_strikes, hedge_args, builds,
                   last_build, b_in>>

NextBuild == Build

SpecBuild == InitBuild /\ [][NextBuild]_vars

\* ------------------------------------------------------------------------
\* Properties
\* ------------------------------------------------------------------------
Active(i) == trades[i].current_status = "active"
SharesStrike(a, b) == {a.strikes[1], a.strikes[2]} \cap {b.strikes[1], b.strikes[2]} # {}

\* C1: at every point of a run, no two trades of the ledger that are both
\* active and on the same side have a strike in common.
C1_ReservationInvariant ==
    \A i \in 1..Len(trades) : \A j \in 1..Len(trades) :
        (i # j /\ Active(i) /\ Active(j) /\ trades[i].spread_type = trades[j].spread_type)
            => ~SharesStrike(trades[i], trades[j])

\* two trades of one side are active together, the second one committed
\* after the strikes check found the first one's strikes reserved
C1_Witness ==
    \E i \in 1..Len(trades) : \E j \in 1..Len(trades) :
        /\ i < j /\ Active(i) /\ Active(j)
        /\ trades[i].spread_type = trades[j].spread_type
        /\ UsedStrikes(trades[i].spread_type) =
              {trades[i].strikes[1], trades[i].strikes[2],
               trades[j].strikes[1], trades[j].strikes[2]}

\* C2: at every point of a run, for every strategy, the number of active
\* trades of that strategy's spread type (hedges committed by another
\* strategy included) is at most the strategy's max_active_positions.
C2_CapacityInvariant ==
    \A i \in 1..Len(strategies_data) :
        ActiveCount(trades, strategies_data[i].spread_type)
            <= strategies_data[i].max_active_positions

\* C3: a hedge trade is committed only if none of its strikes is reserved on
\* its side and the active count of its spread type is below the configured
\* maximum at the moment of the commit.
C3_HedgeCommitChecked ==
    (last_build.hedge /\ last_build.kind = "trade" /\ pc = "close"
        /\ Len(trades) > 0 /\ trades[Len(trades)].hedge_of # 0
        /\ ~last_build.in_use)
        => last_build.active < last_build.limit

\* C4: when the builder computes an entry price strictly below -width the
\* call yields no trade, nothing is appended or reserved, and the loop
\* continues with the next strategy or minute instead of aborting.
C4_RejectedEntryContinues == last_build.kind = "none" => pc # "aborted"

\* The claims on get_spread_data read the call's result b_out and its
\* inputs b_in; a result of kind "trade" is the record the simulator commits.
Built == pc = "built" /\ b_out.kind = "trade"
BuiltDate == DateOf(b_in.current_time)
LastQuoted == b_in.rows[Len(b_in.rows)].time
HasBreakEven == b_out.trade.break_even_time # NoTime
HasTakeProfit == b_out.trade.tp_time # NoTime
ExitMinute == MinuteOf(b_out.trade.exit_time)
BreakEvenMinute == MinuteOf(b_out.trade.break_even_time)

\* C5: under bep, when both a first break-even minute B and a first
\* take-profit minute P exist, the earlier one wins: B < P gives exit_time B
\* and outcome stop_loss, P < B gives exit_time P and outcome take_profit.
\* Stated for series quoted up to 21:50 or later, where the end-of-session
\* override does not interfere.
C5_EarlierWins ==
    (Built /\ b_in.sd.stop_loss_type = "bep" /\ HasBreakEven /\ HasTakeProfit
        /\ LastQuoted >= ValidationTime)
        => /\ BreakEvenMinute < b_out.trade.tp_time
                => (ExitMinute = BreakEvenMinute /\ b_out.trade.outcome = "stop_loss")
           /\ b_out.trade.tp_time < BreakEvenMinute
                => (ExitMinute = b_out.trade.tp_time /\ b_out.trade.outcome = "take_profit")

\* C6: every trade has an outcome that is one of take_profit, stop_loss or
\* expire, never a missing one.
C6_OutcomeSet ==
    Built => b_out.trade.outcome \in {"take_profit", "stop_loss", "expire"}

\* C7: under bep with the last quote minute at or after 21:50: only a
\* break-even minute gives stop_loss at break_even_time, only a take-profit
\* minute gives take_profit at that minute, neither gives expire at the last
\* minute of the joined series.
C7_BepSingleTrigger ==
    (Built /\ b_in.sd.stop_loss_type = "bep" /\ LastQuoted >= ValidationTime)
        => /\ (HasBreakEven /\ ~HasTakeProfit)
                => /\ b_out.trade.outcome = "stop_loss"
                   /\ b_out.trade.exit_time = b_out.trade.break_even_time
           /\ (~HasBreakEven /\ HasTakeProfit)
                => /\ b_out.trade.outcome = "take_profit"
                   /\ b_out.trade.exit_time = DateTime(BuiltDate, b_out.trade.tp_time)
           /\ (~HasBreakEven /\ ~HasTakeProfit)
                => /\ b_out.trade.outcome = "expire"
                   /\ b_out.trade.exit_time = DateTime(BuiltDate, LastQuoted)

C7_Witness ==
    /\ Built /\ b_in.sd.stop_loss_type = "bep" /\ LastQuoted >= ValidationTime
    /\ HasBreakEven /\ ~HasTakeProfit
    /\ BreakEvenMinute < LastQuoted
    /\ b_out.trade.outcome = "stop_loss"

\* C8 as claimed: under expire the outcome is never stop_loss, a take-profit
\* minute is the exit with outcome take_profit, and without one the trade
\* exits at the last minute of the series with outcome expire.
C8_ExpirePolicy_Original ==
    (Built /\ b_in.sd.stop_loss_type = "expire")
        => /\ b_out.trade.outcome # "stop_loss"
           /\ HasTakeProfit
                => /\ b_out.trade.outcome = "take_profit"
                   /\ b_out.trade.exit_time = DateTime(BuiltDate, b_out.trade.tp_time)
           /\ ~HasTakeProfit
                => /\ b_out.trade.outcome = "expire"
                   /\ b_out.trade.exit_time = DateTime(BuiltDate, LastQuoted)

\* C8 amended: under expire the outcome is never stop_loss; when the last
\* quote minute is at or after 21:50, a take-profit minute is the exit with
\* outcome take_profit and without one the trade exits at the last minute
\* with outcome expire, whatever the break-even time is.
C8_ExpirePolicy ==
    (Built /\ b_in.sd.stop_loss_type = "expire")
        => /\ b_out.trade.outcome # "stop_loss"
           /\ LastQuoted >= ValidationTime
                => /\ HasTakeProfit
                        => /\ b_out.trade.outcome = "take_profit"
                           /\ b_out.trade.exit_time = DateTime(BuiltDate, b_out.trade.tp_time)
                   /\ ~HasTakeProfit
                        => /\ b_out.trade.outcome = "expire"
                           /\ b_out.trade.exit_time = DateTime(BuiltDate, LastQuoted)

\* a break-even minute earlier than the take-profit exit, not taken as exit
C8_Witness ==
    /\ Built /\ b_in.sd.stop_loss_type = "expire" /\ LastQuoted >= ValidationTime
    /\ HasBreakEven /\ HasTakeProfit
    /\ BreakEvenMinute < b_out.trade.tp_time
    /\ ExitMinute = b_out.trade.tp_time

\* C9: when the last minute of the joined series is before 21:50, a put
\* spread with end-of-day price above the short strike (a call spread with
\* it below) gets take_profit and exit_price round(entry_price *
\* take_profit_level, 1); otherwise expire, exit_time 22:00 and exit_price
\* -width.
C9_SessionOverride ==
    (Built /\ LastQuoted < ValidationTime)
        => LET t == b_out.trade
               favourable == IF t.spread_type = "put_spread"
                             THEN b_in.eod_spx_price > t.strikes[1] * 100
                             ELSE b_in.eod_spx_price < t.strikes[1] * 100
           IN  IF favourable
               THEN /\ t.outcome = "take_profit"
                    /\ t.exit_price = RoundTenth(t.entry_price, t.take_profit_level)
               ELSE /\ t.outcome = "expire"
                    /\ t.exit_time = DateTime(BuiltDate, TradingEnd)
                    /\ t.exit_price = -(100 * t.width)

\* a call spread settled as expired at 22:00 although a take-profit minute
\* had been found
C9_Witness ==
    /\ Built /\ LastQuoted < ValidationTime
    /\ b_out.trade.spread_type = "call_spread"
    /\ HasTakeProfit
    /\ b_out.trade.outcome = "expire"
    /\ ExitMinute = TradingEnd

\* C10 as claimed: max_loss <= pnl <= max_profit for every trade.
C10_PnlBounds_Original ==
    Built => /\ b_out.trade.max_loss <= b_out.trade.pnl
             /\ b_out.trade.pnl <= b_out.trade.max_profit

\* C10 amended: max_loss - commission <= pnl <= max_profit for every trade.
C10_PnlBounds ==
    Built => /\ b_out.trade.max_loss - Commission <= b_out.trade.pnl
             /\ b_out.trade.pnl <= b_out.trade.max_profit

\* an exit price below -width: the raw pnl is below max_loss - commission
\* and the clamp puts it there
C10_Witness ==
    /\ Built
    /\ b_out.trade.exit_price < -(100 * b_out.trade.width)
    /\ b_out.trade.pnl = b_out.trade.max_loss - Commission

\* C11: for every trade, pnl lies in the closed interval
\* [max_loss - commission, max_profit - commission]; the commission of a run
\* is the simulator's 1.5 and every spread price is a multiple of 0.05.
C11_PnlInterval ==
    Built => /\ b_out.trade.max_loss - Commission <= b_out.trade.pnl
             /\ b_out.trade.pnl <= b_out.trade.max_profit - Commission

\* an exit at a positive spread price (both legs worthless, slippage added):
\* the raw pnl is above max_profit and the upper clamp applies
C11_Witness ==
    /\ Built
    /\ b_out.trade.exit_price > 0
    /\ b_out.trade.entry_price < 0
    /\ b_out.trade.pnl = b_out.trade.max_profit - Commission

\* C12: for every trade, built with selected or with forced strikes and on
\* any exit path, the end-of-session override included, exit_time is at or
\* after entry_time.
C12_ExitNotBeforeEntry ==
    Built => b_out.trade.exit_time >= b_out.trade.entry_time

\* a trade whose first quote row is later than its entry minute and whose
\* exit the override moved to the last quoted minute
C12_Witness ==
    /\ Built
    /\ b_in.rows[1].time > MinuteOf(b_in.current_time)
    /\ LastQuoted < ValidationTime
    /\ b_out.trade.outcome = "take_profit"
    /\ ExitMinute = LastQuoted

\* the stored fields of a ledger record other than its status (the history
\* of its closing is no stored field)
Frozen(t) == [t EXCEPT !.current_status = "any", !.closed_at = NoTime, !.closed_by = 0]

\* C13: a trade's status never goes from closed back to active: once a step
\* has set it to closed no later step changes it again.
C13_StatusMonotonic ==
    [][\A i \in 1..Len(trades) :
          trades[i].current_status = "close"
              => (i <= Len(trades') /\ trades'[i].current_status = "close")]_vars

\* a closed trade lies in the ledger next to a trade committed after its
\* close and still active
C13_Witness ==
    \E i \in 1..Len(trades) : \E j \in 1..Len(trades) :
        /\ i < j
        /\ trades[i].current_status = "close"
        /\ Active(j)
        /\ trades[j].entry_time > trades[i].exit_time

\* the loop has finished the 22:00 iteration of the date being processed
SessionFinished == pc \in {"tick", "done"} /\ current_time = TradingEnd

C15_NoTradeBeforeEntry ==
    \A i \in 1..Len(trades) : Active(i) => trades[i].entry_time <= Now

\* C16: after the close-check of a strategy iteration at minute T no trade
\* is active with exit_time <= T, and the strikes of every trade closed in
\* the step are out of the reservation set of its side.
C16_CloseCheckPost ==
    [][pc = "close"
         => /\ \A i \in 1..Len(trades') :
                  trades'[i].current_status = "active" => trades'[i].exit_time > Now
            /\ \A i \in 1..Len(trades) :
                  (Active(i) /\ i <= Len(trades') /\ trades'[i].current_status = "close")
                      => {trades[i].strikes[1], trades[i].strikes[2]}
                            \cap (IF trades[i].spread_type = "call_spread"
                                  THEN used_call_strikes' ELSE used_put_strikes') = {}]_vars

\* a call spread closed at its exit minute while another call spread stays
\* active with its strikes reserved
C16_Witness ==
    /\ pc \in {"open", "tick"}
    /\ \E i \in 1..Len(trades) : \E j \in 1..Len(trades) :
          /\ trades[i].spread_type = "call_spread"
          /\ trades[i].current_status = "close"
          /\ trades[i].exit_time = Now
          /\ trades[j].spread_type = "call_spread"
          /\ Active(j)
          /\ used_call_strikes = {trades[j].strikes[1], trades[j].strikes[2]}

\* C17: closing is the only mutation of a committed trade and changes its
\* status only, from active to closed; every other field of every record is
\* the same after any step, no record is removed and the order is kept.
C17_LedgerFrame ==
    [][/\ Len(trades') >= Len(trades)
       /\ \A i \in 1..Len(trades) :
             /\ i <= Len(trades') => Frozen(trades'[i]) = Frozen(trades[i])
             /\ (i <= Len(trades') /\ trades'[i].current_status # trades[i].current_status)
                    => /\ pc = "close"
                       /\ trades[i].current_status = "active"
                       /\ trades'[i].current_status = "close"]_vars

\* a ledger of three records, the middle one closed between two active ones
C17_Witness ==
    /\ Len(trades) = 3
    /\ Active(1) /\ trades[2].current_status = "close" /\ Active(3)

ShortStrike == b_out.trade.strikes[1]
LongStrike == b_out.trade.strikes[2]

\* C18: every trade, with strikes selected from the price or forced by a
\* hedge, has short_strike > long_strike if it is a put spread, short_strike
\* < long_strike if it is a call spread, and |short_strike - long_strike| =
\* width.
C18_StrikeGeometry ==
    Built => /\ b_out.trade.spread_type = "put_spread" => ShortStrike > LongStrike
             /\ b_out.trade.spread_type = "call_spread" => ShortStrike < LongStrike
             /\ ShortStrike - LongStrike \in {b_out.trade.width, -b_out.trade.width}

\* a put spread of width 10 built on forced strikes, the reversed pair of a
\* call spread with a non-zero offset
C18_Witness ==
    /\ Built /\ b_in.forced
    /\ b_out.trade.spread_type = "put_spread"
    /\ b_in.sd.offset # 0
    /\ ShortStrike - LongStrike = 10

\* a multiple of 5 nearest to the underlying price
NearestBase(base) ==
    /\ base % StrikeStep = 0
    /\ 100 * base - b_in.spx_price <= 50 * StrikeStep
    /\ b_in.spx_price - 100 * base <= 50 * StrikeStep
BaseCandidates == {(b_in.spx_price \div (100 * StrikeStep)) * StrikeStep + d : d \in {0, StrikeStep}}

\* C19 as claimed: without forced strikes the base strike is the price
\* rounded to the nearest multiple of 5; the offset shifts a call spread's
\* short strike in the direction of its long leg and a put spread's short
\* strike toward the price, both upwards, base + offset; the long strike is
\* short + width for a call spread and short - width for a put spread.
C19_StrikeSelection_Original ==
    (Built /\ ~b_in.forced)
        => /\ \E base \in BaseCandidates :
                 NearestBase(base) /\ ShortStrike = base + b_in.sd.offset
           /\ LongStrike = IF b_in.spread_type = "call_spread"
                           THEN ShortStrike + b_in.sd.width
                           ELSE ShortStrike - b_in.sd.width

\* C19 amended: the offset is added to a put spread's base strike and
\* subtracted from a call spread's, so a positive offset moves either short
\* strike away from its own long leg; base and long strike as claimed.
C19_StrikeSelection ==
    (Built /\ ~b_in.forced)
        => /\ \E base \in BaseCandidates :
                 /\ NearestBase(base)
                 /\ ShortStrike = IF b_in.spread_type = "call_spread"
                                  THEN base - b_in.sd.offset
                                  ELSE base + b_in.sd.offset
           /\ LongStrike = IF b_in.spread_type = "call_spread"
                           THEN ShortStrike + b_in.sd.width
                           ELSE ShortStrike - b_in.sd.width

\* price 5914.54, offset 5, width 10: the call spread is short 5910 and
\* long 5920
C19_Witness ==
    /\ Built /\ ~b_in.forced
    /\ b_in.spread_type = "call_spread"
    /\ b_in.spx_price = 591454 /\ b_in.sd.offset = 5 /\ b_in.sd.width = 10
    /\ b_out.trade.strikes = <<5910, 5920>>

Reversed(strikes) == <<strikes[2], strikes[1]>>

\* C20: under the box policy a hedge is attempted exactly when the built
\* primary trade has a break_even_time; the hedge is on the opposite side,
\* its entry_time is the primary's break_even_time, its short strike the
\* primary's long strike and its long strike the primary's short strike.
C20_BoxHedge ==
    strategies_data[si].hedge = "box"
        => /\ (pc \in {"hedge", "close"} /\ ~last_build.hedge /\ last_build.kind = "trade")
                => (pc = "hedge" <=> last_build.trade.break_even_time # NoTime)
           /\ pc = "hedge"
                => /\ last_build.kind = "trade"
                   /\ hedge_args.entry_time = last_build.trade.break_even_time
                   /\ hedge_args.strikes = Reversed(last_build.trade.strikes)
           /\ (last_build.hedge /\ last_build.kind = "trade")
                => /\ last_build.trade.spread_type = OtherSide(last_build.primary.spread_type)
                   /\ last_build.trade.entry_time = last_build.primary.break_even_time
                   /\ last_build.trade.strikes = Reversed(last_build.primary.strikes)

\* a committed box hedge entered at a break-even minute later than the
\* primary's entry minute
C20_Witness ==
    /\ strategies_data[si].hedge = "box"
    /\ last_build.hedge /\ last_build.kind = "trade" /\ ~last_build.in_use
    /\ Len(trades) > 0
    /\ trades[Len(trades)] = [last_build.trade EXCEPT !.opened_at = Now, !.opened_by = si]
    /\ last_build.trade.entry_time > last_build.primary.entry_time

\* ------------------------------------------------------------------------
\* The price of a joined minute
\* ------------------------------------------------------------------------
\* the joined minutes of the call and the quote each was priced from
JoinedMinutes == 1..Len(b_out.spread_price)
QuoteAt(i) == b_in.rows[i].q
SentinelPrice == -(100 * b_in.sd.width)
AllZero(q) == q.sell_bid = 0 /\ q.sell_ask = 0 /\ q.buy_bid = 0 /\ q.buy_ask = 0
\* the mid of the clamped quotes, doubled: (long_ask - short_ask) + (long_bid - short_bid)
ClampedSum(q) ==
    (Max0(q.buy_ask) - Max0(q.sell_ask)) + (Max0(q.buy_bid) - Max0(q.sell_bid))
\* p is a multiple of 0.05 nearest to half of sum, plus the slippage
NearestNickelPlusSlippage(p, sum) ==
    /\ (p - Slippage) % 5 = 0
    /\ 2 * (p - Slippage) - sum \in -5..5

\* C24: the entry price of every trade a builder returns for the ledger is
\* at most zero.
C24_EntryIsCredit == Built => b_out.trade.entry_price <= 0

\* C25: for the put and the call builder, a joined minute whose four leg
\* quotes are all zero is priced exactly -width, with no slippage added.
C25_Sentinel ==
    pc = "built"
        => \A i \in JoinedMinutes : AllZero(QuoteAt(i)) => b_out.spread_price[i] = SentinelPrice

C25_Witness ==
    /\ Built
    /\ b_in.spread_type = "call_spread"
    /\ \E i \in JoinedMinutes :
          /\ i > 1
          /\ AllZero(QuoteAt(i))
          /\ b_out.spread_price[i] = SentinelPrice

\* C26: a trade whose exit price equals its entry price has pnl equal to
\* minus the commission.
C26_FlatTradePnl ==
    (Built /\ b_out.trade.exit_price = b_out.trade.entry_price)
        => b_out.trade.pnl = -Commission

\* C28: for the put and the call builder, a joined minute with at least one
\* quote that is non-zero after clamping is priced by the mid formula: the
\* multiple of 0.05 nearest to ((long_ask - short_ask) + (long_bid -
\* short_bid)) / 2, plus the slippage.
C28_QuotedMinuteUsesFormula ==
    pc = "built"
        => \A i \in JoinedMinutes :
              (\E f \in {"sell_bid", "sell_ask", "buy_bid", "buy_ask"} : Max0(QuoteAt(i)[f]) # 0)
                  => NearestNickelPlusSlippage(b_out.spread_price[i], ClampedSum(QuoteAt(i)))

\* C29: a joined minute where every one of the four quotes is zero or
\* negative is priced -width.
C29_ClampBeforeSentinel ==
    pc = "built"
        => \A i \in JoinedMinutes :
              (\A f \in {"sell_bid", "sell_ask", "buy_bid", "buy_ask"} : QuoteAt(i)[f] <= 0)
                  => b_out.spread_price[i] = SentinelPrice

\* ------------------------------------------------------------------------
\* Hedge attempts, rejected builds and the order of the checks in a minute
\* ------------------------------------------------------------------------
\* the end of the iterated strategy's entry window on the loop's date
WindowEnd == DateTime(date, strategies_data[si].end_time_window)
\* a primary trade has been built in this iteration and the hedge decision
\* has been taken: pc = "hedge" when a hedge call follows
PrimaryBuilt == last_build.kind = "trade" /\ ~last_build.hedge /\ pc \in {"hedge", "close"}

\* C21: under time_box a hedge is attempted, entered at the window-end time
\* of the date, exactly when that time is strictly before the primary
\* trade's exit_time; at an equal or later window end there is none.
C21_TimeBoxStrictlyBefore ==
    (PrimaryBuilt /\ strategies_data[si].hedge = "time_box")
        => /\ pc = "hedge" <=> WindowEnd < last_build.trade.exit_time
           /\ pc = "hedge" => hedge_args.entry_time = WindowEnd

\* C22: a builder call that ends in its except branch (an empty join, or
\* anything raised while computing) appends no trade, reserves and releases
\* no strike, is followed by no hedge call, and the loop goes on with the
\* close-check of the same iteration.
C22_RaisedBuildIsNoTrade ==
    [][(last_build' # last_build /\ last_build'.raised)
           => /\ trades' = trades
              /\ used_call_strikes' = used_call_strikes
              /\ used_put_strikes' = used_put_strikes
              /\ pc' = "close"
              /\ hedge_args' = NoHedge]_vars

\* a primary call that found no joined minute while the ledger holds trades
\* and strikes are reserved
C22_Witness ==
    /\ last_build.raised /\ ~last_build.hedge
    /\ pc = "close"
    /\ Len(trades) > 0
    /\ used_call_strikes \cup used_put_strikes # {}

\* strikes of the trades of a spread type that are active
ActiveStrikes(spread_type) ==
    UNION {{trades[i].strikes[1], trades[i].strikes[2]} :
              i \in {j \in 1..Len(trades) :
                        Active(j) /\ trades[j].spread_type = spread_type}}
\* two ledger rows of one spread type with a strike in common
SameSideShared(j, k) ==
    /\ trades[j].spread_type = trades[k].spread_type
    /\ SharesStrike(trades[j], trades[k])
\* trade j left the ledger's active rows before trade k entered it, in the
\* order of the loop: an earlier minute, or the same minute and an earlier
\* strategy
ReleasedBefore(j, k) ==
    /\ trades[j].closed_at # NoTime
    /\ \/ trades[j].closed_at < trades[k].opened_at
       \/ /\ trades[j].closed_at = trades[k].opened_at
          /\ trades[j].closed_by < trades[k].opened_by

\* C27: within a minute every strategy's open-check runs before its
\* close-check.  At the open-check of the first strategy at minute T a trade
\* with exit_time = T (or later) is still active and its strikes are still
\* reserved; a
\* strike released by a close-check at T is reserved again at T only by a
\* strategy iterated later, and no released strike stays reserved for the
\* open-checks that follow.
C27_MinuteOrdering ==
    /\ (pc = "open" /\ si = 1)
          => \A i \in 1..Len(trades) :
                trades[i].exit_time >= Now
                    => /\ Active(i)
                       /\ {trades[i].strikes[1], trades[i].strikes[2]}
                              \subseteq UsedStrikes(trades[i].spread_type)
    /\ \A j, k \in 1..Len(trades) :
          (j < k /\ SameSideShared(j, k)) => ReleasedBefore(j, k)
    /\ pc = "open" => \A name \in SpreadTypes : UsedStrikes(name) \subseteq ActiveStrikes(name)

\* the open-check of the first strategy at the exit minute of an active
\* trade, in a run where the first strategy's close-check at an earlier
\* minute T released a strike that the second strategy reserved again at T
C27_Witness ==
    /\ pc = "open" /\ si = 1
    /\ \E i \in 1..Len(trades) : trades[i].exit_time = Now /\ Active(i)
    /\ \E j, k \in 1..Len(trades) :
        /\ j < k /\ SameSideShared(j, k)
        /\ trades[j].closed_at = trades[k].opened_at
        /\ trades[j].exit_time = trades[j].closed_at
        /\ trades[j].closed_by = 1 /\ trades[k].opened_by = 2

\* C30: a hedge is attempted only for a primary trade that was committed: a
\* primary rejected for a reserved strike is followed by no hedge call.
C30_HedgeOnlyForCommitted == pc = "hedge" => ~last_build.in_use

\* ------------------------------------------------------------------------
\* Break-even time, entry price, end-of-session override and risk figures
\* ------------------------------------------------------------------------
\* the underlying price of joined minute i is beyond the trade's
\* break-even level
BeyondBreakEven(i) ==
    IF b_out.trade.spread_type = "put_spread"
    THEN b_in.rows[i].spx_price < b_out.trade.break_even_level
    ELSE b_in.rows[i].spx_price > b_out.trade.break_even_level

\* C31: break_even_time is the first joined minute whose underlying price is
\* beyond break_even_level (below for a put, above for a call): no earlier
\* joined minute is beyond it, and it is absent exactly when no joined
\* minute is; under bep and under expire alike.
C31_FirstBreakEven ==
    Built
        => /\ HasBreakEven <=> \E i \in JoinedMinutes : BeyondBreakEven(i)
           /\ HasBreakEven
                => \E i \in JoinedMinutes :
                      /\ b_out.trade.break_even_time = DateTime(BuiltDate, b_in.rows[i].time)
                      /\ BeyondBreakEven(i)
                      /\ \A j \in 1..(i - 1) : ~BeyondBreakEven(j)

\* under expire, a break-even minute that is neither the first nor the last
\* joined minute, with a later minute beyond the level too
C31_Witness ==
    /\ Built /\ HasBreakEven
    /\ b_out.trade.stop_loss_type = "expire"
    /\ \E i \in JoinedMinutes :
          /\ 1 < i /\ i < Len(b_in.rows)
          /\ b_out.trade.break_even_time = DateTime(BuiltDate, b_in.rows[i].time)
          /\ ~BeyondBreakEven(1)
          /\ BeyondBreakEven(i + 1)

\* C32: the entry price of a trade is the spread price of the joined row
\* whose time is the trade's entry minute.
C32_EntryPriceAtEntryMinute ==
    Built
        => \E i \in JoinedMinutes :
              /\ b_in.rows[i].time = MinuteOf(b_out.trade.entry_time)
              /\ b_out.trade.entry_price = b_out.spread_price[i]

\* C36: the break-even time of a trade, at which its box hedge is entered,
\* is not after the trade's exit_time.
C36_BoxHedgeNotAfterExit ==
    (Built /\ HasBreakEven) => b_out.trade.break_even_time <= b_out.trade.exit_time

\* C37: with the last joined minute at 21:50 or later, exit_time, exit_price
\* and outcome are those of the break-even / take-profit resolution: the
\* exit minute is the break-even, take-profit or last minute the outcome
\* names and the exit price is the spread price of that minute.  With the
\* last joined minute before 21:50 the trade is settled on the end-of-day
\* price whatever was resolved: it exits at the last minute as take_profit
\* at the take-profit price or at 22:00 as expire at -width, never as
\* stop_loss.
C37_OverrideOnlyBefore2150 ==
    Built
        => LET t == b_out.trade
           IN  /\ LastQuoted >= ValidationTime
                    => /\ \E i \in JoinedMinutes :
                             /\ b_in.rows[i].time = ExitMinute
                             /\ t.exit_price = b_out.spread_price[i]
                       /\ t.outcome = "stop_loss" => t.exit_time = t.break_even_time
                       /\ t.outcome \in {"take_profit", "None"} => ExitMinute = t.tp_time
                       /\ t.outcome = "expire" => ExitMinute = LastQuoted /\ ~HasTakeProfit
               /\ LastQuoted < ValidationTime
                    => /\ t.outcome \in {"take_profit", "expire"}
                       /\ t.outcome = "take_profit"
                            => /\ ExitMinute = LastQuoted
                               /\ t.exit_price = RoundTenth(t.entry_price, t.take_profit_level)
                       /\ t.outcome = "expire"
                            => /\ ExitMinute = TradingEnd
                               /\ t.exit_price = -(100 * t.width)

\* under bep, a break-even minute without a take-profit minute in a series
\* that stops before 21:50: the resolved stop_loss exit is replaced
C37_Witness ==
    /\ Built /\ HasBreakEven /\ ~HasTakeProfit
    /\ b_out.trade.stop_loss_type = "bep"
    /\ LastQuoted < ValidationTime
    /\ BreakEvenMinute < LastQuoted
    /\ b_out.trade.outcome = "take_profit"

\* C40: max_profit = -100 * entry_price and max_loss = -100 * (width +
\* entry_price), so max_profit - max_loss = 100 * width and max_loss is
\* below max_profit.
C40_RiskFigures ==
    Built
        => LET t == b_out.trade
           IN  /\ t.max_profit = -(100 * t.entry_price)
               /\ t.max_loss = -(100 * (100 * t.width + t.entry_price))
               /\ t.max_profit - t.max_loss = 100 * (100 * t.width)
               /\ t.max_loss < t.max_profit

\* a call spread built from a forced (reversed) pair of strikes, width 10
C40_Witness ==
    /\ Built /\ b_in.forced
    /\ b_out.trade.spread_type = "call_spread"
    /\ b_out.trade.width = 10
    /\ b_out.trade.max_profit - b_out.trade.max_loss = 100000

\* ------------------------------------------------------------------------
\* The ledger record, the day's reservation sets, missing prices and the
\* strategy runtimes
\* ------------------------------------------------------------------------
\* C39: the record a builder returns has exactly the columns of the ledger,
\* and the commit of a built trade whose strikes are free does not fail.
C39_RecordFitsLedger ==
    last_build.kind = "trade"
        => /\ Columns(last_build.trade) = TradesColumns
           /\ ~last_build.in_use => pc # "aborted"

\* the first open-check of a trading day
StartOfDay == current_time = TradingStart /\ si = 1 /\ pc = "open"

\* C33: at the start of every trading day both reservation sets are empty,
\* whatever trades the ledger holds from earlier days.
C33_FreshSetsEachDay == StartOfDay => (used_call_strikes = {} /\ used_put_strikes = {})

\* the start of the second day with trades of the first day in the ledger
C33_Witness ==
    /\ StartOfDay /\ date = 2
    /\ Len(trades) > 0
    /\ used_call_strikes = {} /\ used_put_strikes = {}

\* the minute has no underlying price, or the date no latest price
PriceMissing == current_spx_price = NoPrice \/ eod_spx_price = NoPrice

\* C35: at a minute without an underlying price (or without the day's latest
\* price) the open-check of every strategy opens nothing, and the
\* close-check runs as at any minute: every active trade with exit_time at
\* or before the minute is closed and its strikes are released.
C35_MissingPrice ==
    [][PriceMissing
          => /\ pc = "open"
                  => /\ trades' = trades
                     /\ used_call_strikes' = used_call_strikes
                     /\ used_put_strikes' = used_put_strikes
                     /\ pc' = "close"
             /\ pc = "close"
                  => \A i \in 1..Len(trades) :
                        (Active(i) /\ trades[i].exit_time <= Now)
                            => /\ trades'[i].current_status = "close"
                               /\ {trades[i].strikes[1], trades[i].strikes[2]}
                                      \cap (used_call_strikes' \cup used_put_strikes') = {}]_vars

\* a minute without a price after a close-check closed a trade at that
\* minute and released its strikes, in a run with a strategy that has room
\* for a position
C35_Witness ==
    /\ PriceMissing
    /\ pc \in {"open", "tick"}
    /\ \E i \in 1..Len(trades) :
          /\ trades[i].closed_at = Now
          /\ {trades[i].strikes[1], trades[i].strikes[2]}
                 \cap UsedStrikes(trades[i].spread_type) = {}
    /\ \E k \in 1..Len(strategies_data) :
          ActiveCount(trades, strategies_data[k].spread_type)
              < strategies_data[k].max_active_positions

\* C38: every strategy configuration of the run has a runtime of its own:
\* a run configured with N strategies iterates N runtimes each minute.
C38_RuntimePerConfiguration == Len(strategies_data) = Len(strategies)

\* C34: the loop runs through the minutes of the business days in
\* increasing order up to 22:00 of the last one: no step goes back in time
\* and no step ends the run before that minute.
C34_LoopVisitsEveryMinute == [][Now' >= Now /\ pc' # "aborted"]_vars
====
